---------------------------- MODULE Spec2Model ----------------------------
(***************************************************************************)
(* A model of the TWAP order scheduler (strategy.py) and of the execution  *)
(* simulator and metrics aggregator (backtest.py).                         *)
(*                                                                         *)
(* Tables (pandas DataFrames) are objects on a heap; a variable holding a  *)
(* table holds a reference to it, so that copying and aliasing differ.     *)
(* Numbers are exact rationals <<n, d>> extended with the float values     *)
(* NaN (<<0,0>>), +inf (<<1,0>>) and -inf (<<-1,0>>); float rounding is    *)
(* not modelled.                                                           *)
(***************************************************************************)
EXTENDS Integers, Sequences, FiniteSets, TLC

\* ------------------------------------------------------------------ bounds
MaxN == 2          \* longest market series
MaxPrice == 2      \* prices are 1..MaxPrice
MaxVolume == 1     \* volumes are 0..MaxVolume
MaxTotal == 2      \* total order quantities are 0..MaxTotal
MaxSchedules == 2  \* generate_orders calls in one behaviour

\* ------------------------------------------------------- float arithmetic
RECURSIVE GCD(_, _)
GCD(a, b) == IF b = 0 THEN a ELSE GCD(b, a % b)

Abs(n) == IF n < 0 THEN -n ELSE n

Sign(n) == IF n < 0 THEN -1 ELSE IF n > 0 THEN 1 ELSE 0

NaN == <<0, 0>>

IsFinite(x) == x[2] # 0

IsNaN(x) == x[1] = 0 /\ x[2] = 0

\* the float n/d, in lowest terms with a positive denominator
Rat(n, d) ==
    IF d = 0 THEN <<Sign(n), 0>>
    ELSE LET g == GCD(Abs(n), Abs(d))
         IN  <<Sign(d) * (n \div g), Abs(d) \div g>>

Flt(n) == <<n, 1>>

Zero == Flt(0)

\* a + b; nan absorbs, inf + (-inf) is nan
Add(a, b) ==
    IF IsFinite(a) /\ IsFinite(b) THEN Rat(a[1] * b[2] + b[1] * a[2], a[2] * b[2])
    ELSE IF IsNaN(a) \/ IsNaN(b) THEN NaN
    ELSE IF IsFinite(a) THEN b
    ELSE IF IsFinite(b) THEN a
    ELSE IF a = b THEN a ELSE NaN

Neg(a) == <<-a[1], a[2]>>

Sub(a, b) == Add(a, Neg(b))

\* a * b; nan absorbs, 0 * inf is nan
Mul(a, b) ==
    IF IsFinite(a) /\ IsFinite(b) THEN Rat(a[1] * b[1], a[2] * b[2])
    ELSE IF IsNaN(a) \/ IsNaN(b) THEN NaN
    ELSE <<Sign(a[1]) * Sign(b[1]), 0>>

\* a < b; every comparison with nan is false
Lt(a, b) ==
    IF IsNaN(a) \/ IsNaN(b) THEN FALSE
    ELSE IF IsFinite(a) /\ IsFinite(b) THEN a[1] * b[2] < b[1] * a[2]
    ELSE IF IsFinite(a) THEN b[1] > 0
    ELSE IF IsFinite(b) THEN a[1] < 0
    ELSE a[1] < b[1]

Gt(a, b) == Lt(b, a)

\* numpy's a / b: x/0 is +-inf, 0/0 is nan, no exception
NpDiv(a, b) ==
    IF IsNaN(a) \/ IsNaN(b) THEN NaN
    ELSE IF IsFinite(a) /\ IsFinite(b) THEN Rat(a[1] * b[2], a[2] * b[1])
    ELSE IF IsFinite(b) THEN <<a[1] * (IF b[1] < 0 THEN -1 ELSE 1), 0>>
    ELSE IF IsFinite(a) THEN Zero
    ELSE NaN

\* Python's builtin min(a, b): b when b < a, else a
PyMin(a, b) == IF Lt(b, a) THEN b ELSE a

\* ------------------------------------------------------------------ tables
\* A DataFrame: index is the row labels in row order, columns the column
\* names, at[c][i] the cell of column c at label i.
Labels(t) == {t.index[k] : k \in 1..Len(t.index)}

NoTable == [index |-> <<>>, columns |-> {}, at |-> <<>>]

\* df[c] = v: the column c is added, or overwritten, with v in every row
SetColumn(t, c, v) ==
    [index |-> t.index,
     columns |-> t.columns \cup {c},
     at |-> [d \in t.columns \cup {c} |->
                IF d = c THEN [i \in Labels(t) |-> v] ELSE t.at[d]]]

\* df.at[i, c] = v for a label i of the index
SetCell(t, i, c, v) == [t EXCEPT !.at[c][i] = v]

\* df.at[i, c] = v for a label that is not in the index: pandas falls back to
\* df.loc[i, c] = v, which appends a row labelled i, nan in the other columns
Enlarge(t, i, c, v) ==
    [index |-> Append(t.index, i),
     columns |-> t.columns,
     at |-> [d \in t.columns |->
                [j \in Labels(t) \cup {i} |->
                    IF j = i THEN (IF d = c THEN v ELSE NaN) ELSE t.at[d][j]]]]

\* DataFrame.at.__setitem__
AtSet(t, i, c, v) ==
    IF i \in Labels(t) THEN SetCell(t, i, c, v) ELSE Enlarge(t, i, c, v)

\* Series.sum(): the sum of the values that are not nan
RECURSIVE SumOver(_, _)
SumOver(f, S) ==
    IF S = {} THEN Zero
    ELSE LET i == CHOOSE j \in S : TRUE
         IN  Add(IF IsNaN(f[i]) THEN Zero ELSE f[i], SumOver(f, S \ {i}))

\* Series.mean(): the mean of the values that are not nan
MeanOver(f, S) ==
    LET present == {i \in S : ~IsNaN(f[i])}
    IN  NpDiv(SumOver(f, present), Flt(Cardinality(present)))

\* ------------------------------------------------------ TWAPStrategy
n_slices(start_index, end_index) == (end_index - start_index) + 1

\* integer division in place of the float division
qty_per_slice_floor(total_order_quantity, start_index, end_index) ==
    IF n_slices(start_index, end_index) > 0
    THEN Flt(total_order_quantity \div n_slices(start_index, end_index))
    ELSE Zero

qty_per_slice(total_order_quantity, start_index, end_index) ==
    IF n_slices(start_index, end_index) > 0
    THEN Rat(total_order_quantity, n_slices(start_index, end_index))
    ELSE Zero

\* for idx in range(start_index, end_index + 1): df_orders.at[idx, ...] = qty
RECURSIVE AssignSlices(_, _, _, _)
AssignSlices(df, idx, end_index, qty) ==
    IF idx > end_index THEN df
    ELSE AssignSlices(AtSet(df, idx, "order_quantity", qty), idx + 1, end_index, qty)

generate_orders(market_data, total_order_quantity, start_index, end_index) ==
    AssignSlices(SetColumn(market_data, "order_quantity", Zero),
                 start_index, end_index,
                 qty_per_slice(total_order_quantity, start_index, end_index))


\* --------------------------------------------------------- Backtester
\* market_data.copy() in Backtester.__init__ and in generate_orders: the copy
\* is a new object, which the Backtester (or the caller's df_orders) then holds
\* no copy: the holder shares the caller's object
AliasOf(src, own) == src

market_data_copy(src, own) == own

df_orders_copy(src, own) == own

\* Backtester.__init__ after the copy: the three execution columns
WithExecutionColumns(md) ==
    SetColumn(SetColumn(SetColumn(md, "executed_quantity", Zero),
                        "executed_price", NaN),
              "expected_price", NaN)

possible_fill(order_qty, market_volume) == PyMin(order_qty, market_volume)

executed_p(price, slippage_factor) == Mul(price, Add(Flt(1), slippage_factor))

\* the prices recorded only when something filled
FillRowIfFilled(md, idx, order_qty, slippage_factor) ==
    LET fill == possible_fill(order_qty, md.at["volume"][idx])
        md1 == SetCell(md, idx, "expected_price", md.at["price"][idx])
        md2 == SetCell(md1, idx, "executed_price",
                       executed_p(md1.at["price"][idx], slippage_factor))
    IN  IF Gt(fill, Zero) THEN SetCell(md2, idx, "executed_quantity", fill) ELSE md

\* the body of run's loop for a row whose order_qty > 0 and whose label idx
\* is in self.market_data
FillRow(md, idx, order_qty, slippage_factor) ==
    LET market_volume == md.at["volume"][idx]
        fill == possible_fill(order_qty, market_volume)
        md1 == SetCell(md, idx, "expected_price", md.at["price"][idx])
        md2 == SetCell(md1, idx, "executed_price",
                       executed_p(md1.at["price"][idx], slippage_factor))
    IN  SetCell(md2, idx, "executed_quantity", fill)

\* run's loop from row k of df_orders on; self.market_data.at[idx, 'volume']
\* raises KeyError for a label that is not in self.market_data, and the rows
\* written before it stay written
RECURSIVE RunRows(_, _, _, _)
RunRows(md, df_orders, slippage_factor, k) ==
    IF k > Len(df_orders.index) THEN [market_data |-> md, fault |-> ""]
    ELSE LET idx == df_orders.index[k]
             order_qty == df_orders.at["order_quantity"][idx]
         IN  IF Gt(order_qty, Zero)
             THEN IF idx \notin Labels(md)
                  THEN [market_data |-> md, fault |-> "KeyError"]
                  ELSE RunRows(FillRow(md, idx, order_qty, slippage_factor),
                               df_orders, slippage_factor, k + 1)
             ELSE RunRows(md, df_orders, slippage_factor, k + 1)

run(md, df_orders, slippage_factor) == RunRows(md, df_orders, slippage_factor, 1)

\* ---------------------------------------------------- calculate_metrics
None == <<>>

NoMetrics == [execution_cost |-> None, slippage |-> None, fill_rate |-> None]

BenchmarkTypes == {"VWAP", "vwap", "avg_price"}

\* str.upper() on the benchmark types of the model
Upper(s) ==
    CASE s = "vwap" -> "VWAP"
      [] s = "avg_price" -> "AVG_PRICE"
      [] OTHER -> s

\* the element-wise product of two columns
Product(f, g, S) == [i \in S |-> Mul(f[i], g[i])]

\* dropna(subset=['executed_price']) and executed_quantity > 0
executed_rows(md) ==
    {i \in Labels(md) : /\ ~IsNaN(md.at["executed_price"][i])
                        /\ Gt(md.at["executed_quantity"][i], Zero)}

fill_rate_of(total_executed_quantity, total_order_quantity) ==
    IF Gt(total_order_quantity, Zero)
    THEN NpDiv(total_executed_quantity, total_order_quantity)
    ELSE Zero

benchmark_price(md, benchmark_type) ==
    IF Upper(benchmark_type) = "VWAP"
    THEN NpDiv(SumOver(Product(md.at["price"], md.at["volume"], Labels(md)), Labels(md)),
               SumOver(md.at["volume"], Labels(md)))
    ELSE MeanOver(md.at["price"], Labels(md))

calculate_metrics(md, benchmark_type) ==
    LET rows == executed_rows(md)
    IN  IF rows = {}
        THEN [fault |-> "",
              metrics |-> [execution_cost |-> None, slippage |-> None, fill_rate |-> Zero]]
        ELSE IF "order_quantity" \notin md.columns
        THEN [fault |-> "KeyError", metrics |-> NoMetrics]
        ELSE LET total_executed_quantity == SumOver(md.at["executed_quantity"], rows)
                 total_order_quantity == SumOver(md.at["order_quantity"], Labels(md))
                 exec_value == SumOver(Product(md.at["executed_price"],
                                               md.at["executed_quantity"], rows), rows)
                 avg_exec_price == NpDiv(exec_value, total_executed_quantity)
                 expected_value == SumOver(Product(md.at["expected_price"],
                                                   md.at["executed_quantity"], rows), rows)
                 avg_expected_price == NpDiv(expected_value, total_executed_quantity)
             IN  [fault |-> "",
                  metrics |->
                     [execution_cost |-> Sub(avg_exec_price, benchmark_price(md, benchmark_type)),
                      slippage |-> Sub(avg_exec_price, avg_expected_price),
                      fill_rate |-> fill_rate_of(total_executed_quantity, total_order_quantity)]]

\* ------------------------------------------------------------ the state
VARIABLES
    heap,        \* the tables: reference -> DataFrame (NoTable: no such object yet)
    df_orders,   \* the caller's schedule: the reference generate_orders returned, "" before
    budget,      \* how many more schedules the caller generates
    backtester,  \* the Backtester objects: self.market_data (a reference) and
                 \* self.slippage_factor; as history, the table it was built from,
                 \* whether run was called on it, whether a run on it raised and the
                 \* schedule of its last run
    last         \* the call that just returned or raised, with its arguments and result

vars == <<heap, df_orders, budget, backtester, last>>

BtRefs == <<"bt1", "bt2">>

CallerRefs == {"market", "orders"}

Refs == CallerRefs \cup {BtRefs[b] : b \in 1..Len(BtRefs)}

SlippageFactors == {Zero, Rat(1, 10)}

NoBacktester ==
    [market_data |-> "", slippage_factor |-> Zero, source |-> NoTable, ran |-> FALSE,
     raised |-> FALSE, schedule |-> NoTable]

NoCall ==
    [op |-> "", bt |-> 0, fault |-> "", total |-> 0, start_index |-> 0, end_index |-> 0,
     benchmark_type |-> "", metrics |-> NoMetrics, first_run |-> FALSE]

\* a market series of n periods: a dense index 0..n-1, a price and a volume per period
MarketSeries(n, price, volume) ==
    [index |-> [k \in 1..n |-> k - 1],
     columns |-> {"price", "volume"},
     at |-> [c \in {"price", "volume"} |->
                [i \in 0..(n - 1) |-> Flt(IF c = "price" THEN price[i] ELSE volume[i])]]]

InitWith(nbt, nsched, series) ==
    /\ heap = [r \in Refs |-> IF r = "market" THEN series ELSE NoTable]
    /\ df_orders = ""
    /\ budget = nsched
    /\ backtester = [b \in 1..nbt |-> NoBacktester]
    /\ last = NoCall

Init ==
    \E n \in 1..MaxN :
        \E price \in [0..(n - 1) -> 1..MaxPrice], volume \in [0..(n - 1) -> 0..MaxVolume] :
            InitWith(1, MaxSchedules, MarketSeries(n, price, volume))

N == Len(heap["market"].index)

\* TWAPStrategy(total, start, end).generate_orders(market_data)
GenerateOrders(total, start_index, end_index) ==
    LET new == df_orders_copy("market", "orders")
    IN  /\ budget > 0
        /\ budget' = budget - 1
        /\ heap' = [heap EXCEPT ![new] =
                       generate_orders(heap["market"], total, start_index, end_index)]
        /\ df_orders' = new
        /\ last' = [NoCall EXCEPT !.op = "generate_orders", !.total = total,
                                  !.start_index = start_index, !.end_index = end_index]
        /\ UNCHANGED backtester

\* backtester[b] = Backtester(src, slippage_factor), src the market series or the schedule
Construct(b, src, slippage_factor) ==
    LET own == market_data_copy(src, BtRefs[b])
    IN  /\ heap[src] # NoTable
        /\ heap' = [heap EXCEPT ![own] = WithExecutionColumns(heap[src])]
        /\ backtester' = [backtester EXCEPT ![b] =
                             [market_data |-> own, slippage_factor |-> slippage_factor,
                              source |-> heap[src], ran |-> FALSE, raised |-> FALSE,
                              schedule |-> NoTable]]
        /\ last' = [NoCall EXCEPT !.op = "Backtester", !.bt = b]
        /\ UNCHANGED <<df_orders, budget>>

\* backtester[b].run(df_orders)
Run(b) ==
    LET self == backtester[b]
        out == run(heap[self.market_data], heap[df_orders], self.slippage_factor)
    IN  /\ self.market_data # ""
        /\ df_orders # ""
        /\ heap' = [heap EXCEPT ![self.market_data] = out.market_data]
        /\ backtester' = [backtester EXCEPT ![b].ran = TRUE,
                                            ![b].raised = @ \/ out.fault # "",
                                            ![b].schedule = heap[df_orders]]
        /\ last' = [NoCall EXCEPT !.op = "run", !.bt = b, !.fault = out.fault,
                                  !.first_run = ~self.ran]
        /\ UNCHANGED <<df_orders, budget>>

\* backtester[b].calculate_metrics(benchmark_type)
CalculateMetrics(b, benchmark_type) ==
    LET self == backtester[b]
        out == calculate_metrics(heap[self.market_data], benchmark_type)
    IN  /\ self.market_data # ""
        /\ last' = [NoCall EXCEPT !.op = "calculate_metrics", !.bt = b, !.fault = out.fault,
                                  !.benchmark_type = benchmark_type, !.metrics = out.metrics]
        /\ UNCHANGED <<heap, df_orders, budget, backtester>>

Next ==
    \/ \E total \in 0..MaxTotal, start_index \in -1..(N - 1), end_index \in 0..N :
           GenerateOrders(total, start_index, end_index)
    \/ \E b \in DOMAIN backtester, src \in {"market", df_orders} \ {""},
          slippage_factor \in SlippageFactors :
           Construct(b, src, slippage_factor)
    \/ \E b \in DOMAIN backtester : Run(b)
    \/ \E b \in DOMAIN backtester, benchmark_type \in BenchmarkTypes :
           CalculateMetrics(b, benchmark_type)

Spec == Init /\ [][Next]_vars

\* two Backtesters over one market series and one schedule
InitTwo ==
    InitWith(2, 1, MarketSeries(MaxN, [i \in 0..(MaxN - 1) |-> 1 + (i % MaxPrice)],
                                [i \in 0..(MaxN - 1) |-> i % (MaxVolume + 1)]))

SpecTwo == InitTwo /\ [][Next]_vars

\* the scheduler alone: generate_orders applied to every market series
NextSchedule ==
    \E total \in 0..MaxTotal, start_index \in -1..(N - 1), end_index \in 0..N :
        GenerateOrders(total, start_index, end_index)

SpecSchedule == Init /\ [][NextSchedule]_vars

\* ------------------------------------------------------------ properties
\* a real number: neither nan nor +-inf
IsReal(x) == x[2] # 0

\* a metric that is a real number, not None
IsDefinedMetric(x) == x # None /\ IsReal(x)

Leq(a, b) == a[1] * b[2] <= b[1] * a[2]

MinOf(a, b) == IF Leq(a, b) THEN a ELSE b

\* the Backtester of the last call, its records and the caller's schedule
Self == backtester[last.bt]

Records == heap[Self.market_data]

Schedule == heap[df_orders]

OrderQty(sched, i) == sched.at["order_quantity"][i]

\* an order was placed for period i: the schedule has the period, with a quantity > 0
Ordered(sched, i) == i \in Labels(sched) /\ Gt(OrderQty(sched, i), Zero)

\* a market series as the data model has it: a price and a non-negative volume
\* in every period
IsMarketSeries(t) ==
    \A i \in Labels(t) :
        /\ IsReal(t.at["price"][i])
        /\ IsReal(t.at["volume"][i]) /\ Leq(Zero, t.at["volume"][i])

\* C1: after a run of a schedule over the series it is aligned with, no run
\* having raised, a period of non-negative volume with order_quantity > 0 has
\* executed_quantity = min(order_quantity, volume) and one with
\* order_quantity = 0 has executed_quantity = 0.
C1_FillIsOrderCappedByVolume ==
    (/\ last.op = "run"
     /\ ~Self.raised
     /\ IsMarketSeries(Records)
     /\ Labels(Schedule) = Labels(Records)) =>
        \A i \in Labels(Records) :
            LET vol == Records.at["volume"][i]
                eq == Records.at["executed_quantity"][i]
            IN  /\ Gt(OrderQty(Schedule, i), Zero) => eq = MinOf(OrderQty(Schedule, i), vol)
                /\ OrderQty(Schedule, i) = Zero => eq = Zero

\* The same for the first run of a Backtester, where it holds.
FirstRunFillIsOrderCappedByVolume ==
    last.first_run => C1_FillIsOrderCappedByVolume

ValidWindow ==
    /\ last.op = "generate_orders"
    /\ last.total >= 0
    /\ 0 <= last.start_index /\ last.start_index <= last.end_index /\ last.end_index < N

\* C2: for total_quantity >= 0 and 0 <= start_index <= end_index < N the schedule
\* has the N entries of the series, total_quantity / (end_index - start_index + 1)
\* at every index of the window, 0 elsewhere, and the entries sum to total_quantity.
C2_EqualSlicesSumToTotal ==
    ValidWindow =>
        /\ Schedule.index = heap["market"].index
        /\ Len(Schedule.index) = N
        /\ \A i \in 0..(N - 1) :
              LET q == OrderQty(Schedule, i)
              IN  IF last.start_index <= i /\ i <= last.end_index
                  THEN IsReal(q) /\
                       q[1] * (last.end_index - last.start_index + 1) = last.total * q[2]
                  ELSE q = Zero
        /\ SumOver(Schedule.at["order_quantity"], Labels(Schedule)) = Flt(last.total)

\* a window of two slices inside the series and a total the slices do not divide
C2_Witness ==
    /\ ValidWindow
    /\ last.end_index = last.start_index + 1
    /\ last.total = 1
    /\ OrderQty(Schedule, last.start_index) = Rat(1, 2)

\* C3: the records after run(B) equal those run(B) gives on a Backtester freshly
\* constructed from the same table and slippage factor, whatever was run before
\* (the schedule aligned with the series, no run on the Backtester having raised).
C3_RunIndependentOfEarlierRuns ==
    (/\ last.op = "run"
     /\ ~Self.raised
     /\ IsMarketSeries(Records)
     /\ Labels(Schedule) = Labels(Records)) =>
        Records = run(WithExecutionColumns(Self.source), Schedule,
                      Self.slippage_factor).market_data

\* C4: after a run that returned, over non-negative quantities and volumes,
\* calculate_metrics returns fill_rate = executed quantity of the filled
\* periods / total order quantity of the schedule that was run (0 when that
\* total is 0), within [0, 1] when the total is > 0, whatever table the
\* Backtester was constructed from.
C4_FillRateOverTheScheduleRun ==
    (/\ last.op = "calculate_metrics"
     /\ Self.ran /\ ~Self.raised
     /\ IsMarketSeries(Records)) =>
        LET filled == {i \in Labels(Records) :
                          /\ ~IsNaN(Records.at["executed_price"][i])
                          /\ Gt(Records.at["executed_quantity"][i], Zero)}
            executed == SumOver(Records.at["executed_quantity"], filled)
            ordered == SumOver(Self.schedule.at["order_quantity"], Labels(Self.schedule))
        IN  /\ last.fault = ""
            /\ last.metrics.fill_rate =
                   (IF ordered = Zero THEN Zero ELSE NpDiv(executed, ordered))
            /\ Gt(ordered, Zero) =>
                   Leq(Zero, last.metrics.fill_rate) /\ Leq(last.metrics.fill_rate, Flt(1))

\* C5: calculate_metrics returns (undefined, undefined, 0) exactly when no period
\* has executed_quantity > 0 and a defined executed_price; otherwise it returns a
\* defined execution_cost and slippage; fill_rate is defined in all cases
\* (stated for the records of a market series on which no run raised).
C5_UndefinedExactlyWhenNothingFilled ==
    (last.op = "calculate_metrics" /\ ~Self.raised /\ IsMarketSeries(Records)) =>
        LET nothing_filled ==
                ~\E i \in Labels(Records) :
                     /\ Gt(Records.at["executed_quantity"][i], Zero)
                     /\ ~IsNaN(Records.at["executed_price"][i])
            m == last.metrics
        IN  /\ last.fault = ""
            /\ nothing_filled <=>
                   (m.execution_cost = None /\ m.slippage = None /\ m.fill_rate = Zero)
            /\ ~nothing_filled =>
                   IsDefinedMetric(m.execution_cost) /\ IsDefinedMetric(m.slippage)
            /\ IsDefinedMetric(m.fill_rate)

\* The same for a Backtester constructed from a table that has an
\* order_quantity column, where it holds.
WithOrderColumnUndefinedExactlyWhenNothingFilled ==
    (last.op = "calculate_metrics" /\ "order_quantity" \in Records.columns) =>
        C5_UndefinedExactlyWhenNothingFilled

\* C6: generate_orders with start_index <= end_index and start_index < 0 or
\* end_index >= N raises and returns no schedule; a schedule it returns has the
\* index set [0, N).
C6_OutOfRangeWindowFaults ==
    last.op = "generate_orders" =>
        /\ (/\ last.start_index <= last.end_index
            /\ (last.start_index < 0 \/ last.end_index >= N)) => last.fault # ""
        /\ last.fault = "" => Labels(Schedule) = 0..(N - 1)

\* C7: run raises when the index set of the schedule differs from the index set
\* of the Backtester's series, and returns no records for such a pair.
C7_MisalignedRunFaults ==
    (last.op = "run" /\ Labels(Schedule) # Labels(Records)) => last.fault # ""

\* C8: calculate_metrics("VWAP") raises whenever the volumes of the whole series
\* sum to 0, in every state a run leaves (stated for the runs that returned, of
\* a schedule aligned with the series).
C8_VwapOverZeroVolumeFaults ==
    (/\ last.op = "calculate_metrics"
     /\ last.benchmark_type = "VWAP"
     /\ Self.ran /\ ~Self.raised
     /\ IsMarketSeries(Records)
     /\ Labels(Self.schedule) = Labels(Records)
     /\ SumOver(Records.at["volume"], Labels(Records)) = Zero) => last.fault # ""

\* C9: in the records of the first run of a Backtester, for every period (a row
\* with a price), expected_price and executed_price are defined exactly when the
\* schedule's order_quantity is > 0, whatever the volume; then expected_price is
\* the period's price and executed_price is price * (1 + slippage_factor).
C9_PricesDefinedIffOrdered ==
    (last.op = "run" /\ last.fault = "" /\ last.first_run) =>
        \A i \in Labels(Records) :
            LET price == Records.at["price"][i]
                expected == Records.at["expected_price"][i]
                executed == Records.at["executed_price"][i]
                sf == Self.slippage_factor
            IN  IsReal(price) =>
                    /\ ~IsNaN(expected) <=> Ordered(Schedule, i)
                    /\ ~IsNaN(executed) <=> Ordered(Schedule, i)
                    /\ Ordered(Schedule, i) =>
                           /\ expected = price
                           /\ IsReal(executed)
                           /\ executed[1] * price[2] * sf[2] =
                                  price[1] * (sf[2] + sf[1]) * executed[2]

\* a first run with an order in a period of volume 0: nothing filled, prices recorded
C9_Witness ==
    /\ last.op = "run" /\ last.fault = "" /\ last.first_run
    /\ Self.slippage_factor # Zero
    /\ \E i \in Labels(Records) :
          /\ Ordered(Schedule, i)
          /\ Records.at["volume"][i] = Zero
          /\ Records.at["executed_quantity"][i] = Zero
          /\ Records.at["expected_price"][i] = Records.at["price"][i]
          /\ Gt(Records.at["executed_price"][i], Records.at["price"][i])

\* C10: no call changes a table of the caller (the market series, and the
\* schedule until generate_orders returns a new one), and a call on one
\* Backtester, or on none, leaves the records of every other Backtester as they were.
C10_CallerTablesUnchanged ==
    [][/\ heap'["market"] = heap["market"]
       /\ last'.op # "generate_orders" => heap'["orders"] = heap["orders"]
       /\ \A b \in DOMAIN backtester :
             (backtester[b].market_data # "" /\ last'.bt # b) =>
                 /\ backtester'[b] = backtester[b]
                 /\ heap'[backtester[b].market_data] = heap[backtester[b].market_data]]_vars

\* two Backtesters built from the same schedule, one run and one not: their records differ
C10_Witness ==
    /\ DOMAIN backtester = {1, 2}
    /\ df_orders # ""
    /\ backtester[1].market_data # "" /\ backtester[2].market_data # ""
    /\ backtester[1].source = Schedule /\ backtester[2].source = Schedule
    /\ backtester[1].ran /\ ~backtester[2].ran
    /\ heap[backtester[1].market_data] # heap[backtester[2].market_data]
    /\ heap[backtester[2].market_data] = WithExecutionColumns(Schedule)

=============================================================================
